---- MODULE Spec2Model ----
(***************************************************************************)
(* A model of monzo-fs: the diazed routing framework                       *)
(* (src/monzo_fs/diazed.py) and the memoizing cache decorator              *)
(* (src/mondofs/decorators.py).                                            *)
(*                                                                         *)
(* Strings are sequences of one-character strings, so that regular         *)
(* expression matching, slicing and JSON encoding are computed character   *)
(* by character.  Python values are records tagged with their type in the  *)
(* field t.                                                                *)
(***************************************************************************)
EXTENDS Integers, Sequences, FiniteSets, TLC

VARIABLES
    routes,        \* _DiazedFileSystem.routes: operation -> list of (regex, callback)
    fd,            \* _DiazedFileSystem.fd
    handles,       \* history: the handle ids open() has returned, in order
    timedelta,     \* decorators.cache: the argument of cache(timedelta)
    cache,         \* decorators.cache: the dict `cache` of the decorator object
    cache_expiry,  \* decorators.cache: the dict `cache_expiry` of the decorator object
    now,           \* datetime.datetime.now()
    last,          \* observation: the last call made, what it returned or raised,
                   \* and the handler invocations it made
    threads,       \* the calls in progress on the threads of the FUSE driver:
                   \* each thread's position in the method it runs and its locals
    transaction_list_cache,
                   \* mondofs: the dict singleton('transaction-list-cache')
    listing        \* mondofs: the dicts cache and cache_expiry of the decorator
                   \* object that wraps transactions_in_year_month

vars == <<routes, fd, handles, timedelta, cache, cache_expiry, now, last,
          threads, transaction_list_cache, listing>>

fsvars == <<routes, fd, handles>>
cachevars == <<timedelta, cache, cache_expiry, now>>
mondovars == <<transaction_list_cache, listing>>

(***************************************************************************)
(* Bounds of the model.                                                    *)
(***************************************************************************)
MaxRoutes == 2     \* routes registered in total
MaxOpens == 2      \* open() calls
MaxSize == 3       \* read(): largest size and offset tried
MaxTime == 3       \* the clock runs from 0 to MaxTime
MaxLen == 2        \* _ensure_obj: longest string and longest collection tried
MaxInt == 42       \* _ensure_obj: largest integer tried

(***************************************************************************)
(* Python values.                                                          *)
(***************************************************************************)
None == [t |-> "None"]
Str(s) == [t |-> "str", v |-> s]
PyInt(n) == [t |-> "int", v |-> n]
List(s) == [t |-> "list", v |-> s]
Tuple(s) == [t |-> "tuple", v |-> s]
\* a set, with its items in the order its iteration yields them
Set(s) == [t |-> "set", v |-> s]
\* a unicode object: text, as json.loads and the HTTP client return it
Unicode(s) == [t |-> "unicode", v |-> s]
\* the character U+00E9, which is outside ASCII
e_acute == "U+00E9"
\* the exception a constructor raised, in place of the object
UnicodeEncodeError == [t |-> "UnicodeEncodeError"]

Returned(v) == [st |-> "return", v |-> v]
Raised(e) == [st |-> "raise", v |-> e]

\* stat.S_IFDIR | 0o555 and stat.S_IFREG | 0o444
S_IFDIR_0555 == "S_IFDIR|0555"
S_IFREG_0444 == "S_IFREG|0444"

\* Dir.__init__ (no extra attrs are ever passed by the framework)
Dir(contents) ==
    [t |-> "Dir", contents |-> contents, attrs |-> [st_mode |-> S_IFDIR_0555]]

DigitChars == <<"0", "1", "2", "3", "4", "5", "6", "7", "8", "9">>

RECURSIVE Digits(_)
\* the decimal digits of a natural number
Digits(n) ==
    IF n < 10 THEN <<DigitChars[n + 1]>>
    ELSE Digits(n \div 10) \o <<DigitChars[(n % 10) + 1]>>

\* whether bytes(x) can encode x: str(x) encodes a unicode object with the
\* ascii codec and raises UnicodeEncodeError on any other character
encodable(x) ==
    x.t = "unicode" => \A k \in 1..Len(x.v) : x.v[k] # e_acute

\* a dict, as the sequence of its (key, value) pairs
Dict(s) == [t |-> "dict", v |-> s]

\* repr() of a str of plain letters: the letters between single quotes
repr_str(s) == <<"'">> \o s \o <<"'">>

RECURSIVE repr_items(_)
\* the repr() of the strs of a sequence, separated by a comma and a space
repr_items(s) ==
    IF Len(s) = 0 THEN <<>>
    ELSE IF Len(s) = 1 THEN repr_str(s[1])
    ELSE repr_str(s[1]) \o <<",", " ">> \o repr_items(Tail(s))

RECURSIVE repr_pairs(_)
\* the repr() of the (key, value) pairs of a dict of strs
repr_pairs(s) ==
    IF Len(s) = 0 THEN <<>>
    ELSE repr_str(s[1][1]) \o <<":", " ">> \o repr_str(s[1][2])
         \o (IF Len(s) = 1 THEN <<>> ELSE <<",", " ">> \o repr_pairs(Tail(s)))

\* bytes(x) of Python 2, which is str(x): a str is itself, an int its digits,
\* a unicode object its ascii encoding, a tuple, set or dict its repr()
bytes(x) ==
    CASE x.t = "str" -> x.v
      [] x.t = "unicode" -> x.v
      [] x.t = "int" -> Digits(x.v)
      [] x.t = "None" -> <<"N", "o", "n", "e">>
      [] x.t = "tuple" ->
            <<"(">> \o repr_items(x.v)
            \o (IF Len(x.v) = 1 THEN <<",">> ELSE <<>>) \o <<")">>
      [] x.t = "set" ->
            <<"s", "e", "t", "(", "[">> \o repr_items(x.v) \o <<"]", ")">>
      [] x.t = "dict" -> <<"{">> \o repr_pairs(x.v) \o <<"}">>

\* File.__init__: the File, or the exception bytes() raised
File(contents) ==
    IF ~encodable(contents) THEN UnicodeEncodeError
    ELSE LET b == bytes(contents) IN
         [t |-> "File", contents |-> b,
          attrs |-> [st_mode |-> S_IFREG_0444, st_size |-> Len(b)]]

\* _ensure_obj
ensure_obj(x) ==
    IF x.t \in {"Dir", "File"} THEN x
    ELSE IF x.t \in {"list", "tuple", "set"} THEN Dir(x.v)
    ELSE File(x)

(***************************************************************************)
(* Regular expressions.  A compiled pattern is the sequence of the regex's *)
(* tokens: the group GROUP that on() substitutes for a placeholder, and    *)
(* the characters of the template, which re.compile reads as regex syntax: *)
(* a dot is any character, parentheses delimit a capturing group, and any  *)
(* other character of the alphabet used here stands for itself.            *)
(***************************************************************************)
GROUP == "([^/]*)"

RECURSIVE FirstClose(_, _)
\* the index of the first ">" of t at or after i, 0 when there is none
FirstClose(t, i) ==
    IF i > Len(t) THEN 0
    ELSE IF t[i] = ">" THEN i
    ELSE FirstClose(t, i + 1)

RECURSIVE re_sub(_, _)
\* re.sub('<[^>]*>', '([^/]*)', route), from index i on
re_sub(t, i) ==
    IF i > Len(t) THEN <<>>
    ELSE IF t[i] = "<" /\ FirstClose(t, i + 1) > 0
         THEN <<GROUP>> \o re_sub(t, FirstClose(t, i + 1) + 1)
         ELSE <<t[i]>> \o re_sub(t, i + 1)

RECURSIVE Depth(_, _, _)
\* the nesting depth of parentheses after the tokens i.., -1 once unbalanced
Depth(re, i, d) ==
    IF d < 0 \/ i > Len(re) THEN d
    ELSE Depth(re, i + 1, IF re[i] = "(" THEN d + 1
                          ELSE IF re[i] = ")" THEN d - 1 ELSE d)

\* whether re.compile accepts the pattern (it raises re.error otherwise)
re_valid(re) == Depth(re, 1, 0) = 0

NoMatch == [ok |-> FALSE, groups |-> <<>>]

RECURSIVE NonSlashRun(_, _)
\* how many characters of s from index j on are not "/"
NonSlashRun(s, j) ==
    IF j > Len(s) \/ s[j] = "/" THEN 0 ELSE 1 + NonSlashRun(s, j + 1)

RECURSIVE m_here(_, _, _, _, _, _)
RECURSIVE m_star(_, _, _, _, _, _, _)
\* A backtracking match of the tokens i.. of re at index j of s, anchored at the
\* end ("$").  caps holds the text of the groups opened so far, stack the
\* (group number, start index) of the groups still open.
m_here(re, i, s, j, caps, stack) ==
    IF i > Len(re)
    THEN IF j = Len(s) + 1 THEN [ok |-> TRUE, groups |-> caps] ELSE NoMatch
    ELSE IF re[i] = GROUP
    THEN m_star(re, i, s, j, caps, stack, NonSlashRun(s, j))
    ELSE IF re[i] = "("
    THEN m_here(re, i + 1, s, j, Append(caps, <<>>),
                <<<<Len(caps) + 1, j>>>> \o stack)
    ELSE IF re[i] = ")"
    THEN m_here(re, i + 1, s, j,
                [caps EXCEPT ![stack[1][1]] = SubSeq(s, stack[1][2], j - 1)],
                Tail(stack))
    ELSE IF j <= Len(s) /\ (re[i] = "." \/ re[i] = s[j])
    THEN m_here(re, i + 1, s, j + 1, caps, stack)
    ELSE NoMatch

\* the greedy group: the longest run first, then shorter ones
m_star(re, i, s, j, caps, stack, k) ==
    LET r == m_here(re, i + 1, s, j + k,
                    Append(caps, SubSeq(s, j, j + k - 1)), stack)
    IN  IF r.ok THEN r
        ELSE IF k = 0 THEN NoMatch
        ELSE m_star(re, i, s, j, caps, stack, k - 1)

\* route.match(path) of a pattern compiled from '^' + ... + '$'
re_match(re, path) == m_here(re, 1, path, 1, <<>>, <<>>)

\* the pattern on() compiles for a template
compile(template) == re_sub(template, 1)

(***************************************************************************)
(* The handler functions a client program decorates.  Their bodies are the *)
(* client's; these are the ones of the module docstring of diazed.py and   *)
(* a few more of the same kind.  Calling one with the wrong number of      *)
(* positional arguments raises TypeError, as any Python call does.         *)
(***************************************************************************)
Handlers == {"read_example", "read_file", "list_dir", "pair", "broken"}

handler_arity(fn) ==
    CASE fn = "read_example" -> 0
      [] fn = "read_file" -> 1
      [] fn = "list_dir" -> 1
      [] fn = "pair" -> 2
      [] fn = "broken" -> 1

handler_body(fn, args) ==
    CASE fn = "read_example" -> Returned(Str(<<"h", "e", "l", "l", "o">>))
      [] fn = "read_file" -> Returned(Str(<<"r", "-">> \o args[1]))
      [] fn = "list_dir" -> Returned(List(<<args[1], <<"j">>>>))
      [] fn = "pair" -> Returned(Str(args[1] \o <<":">> \o args[2]))
      [] fn = "broken" -> Raised("IOError")

\* fn(*args)
handler_call(fn, args) ==
    IF Len(args) # handler_arity(fn) THEN Raised("TypeError")
    ELSE handler_body(fn, args)

\* A callback is the handler itself (ensure = FALSE) or _curry(fn, _ensure_obj).
\* _curry.__curry
curry(callback, args) ==
    LET ret == handler_call(callback.fn, args) IN
    IF ret.st = "return" /\ callback.ensure
    THEN LET obj == ensure_obj(ret.v) IN
         IF obj = UnicodeEncodeError THEN Raised("UnicodeEncodeError")
         ELSE Returned(obj)
    ELSE ret

(***************************************************************************)
(* The router.                                                             *)
(***************************************************************************)
RoutedOps == {"readdir", "readlink", "getxattr", "listxattr", "open", "read"}
MutatingOps == {"create", "write", "truncate", "unlink", "chmod", "chown",
                "mkdir", "removexattr", "rename", "rmdir", "setxattr",
                "symlink", "utimens"}
Operations == RoutedOps \cup MutatingOps

\* _DiazedFileSystem.on: the route table afterwards, or re.error raised by
\* re.compile.  A route keeps its template beside its pattern, for the
\* properties to name it; the program does not read it.
on(rt, operation, route, callback) ==
    LET re == compile(route) IN
    IF re_valid(re)
    THEN [st |-> "return",
          routes |-> [rt EXCEPT ![operation] =
                         Append(@, [re |-> re, callback |-> callback,
                                    template |-> route])]]
    ELSE [st |-> "raise", routes |-> rt]

RECURSIVE last_match(_, _, _)
\* a scan that keeps the latest matching route instead of stopping at the first
last_match(table, path, i) ==
    IF i > Len(table) THEN 0
    ELSE LET later == last_match(table, path, i + 1) IN
         IF later > 0 THEN later
         ELSE IF re_match(table[i].re, path).ok THEN i ELSE 0

\* the index of the first route of table, from i on, that matches path; 0 if none
RECURSIVE first_match(_, _, _)
first_match(table, path, i) ==
    IF i > Len(table) THEN 0
    ELSE IF re_match(table[i].re, path).ok THEN i
    ELSE first_match(table, path, i + 1)

\* callback(*match.groups())
pass_groups(groups) == groups

\* _DiazedFileSystem.route: what it returns or raises, and the calls it made
route(rt, operation, path) ==
    LET i == first_match(rt[operation], path, 1) IN
    IF i = 0
    THEN [st |-> "raise", v |-> "UnableToRouteException", calls |-> <<>>]
    ELSE LET r == rt[operation][i]
             args == pass_groups(re_match(r.re, path).groups)
             ret == curry(r.callback, args)
         IN  [st |-> ret.st, v |-> ret.v,
              calls |-> <<[fn |-> r.callback.fn, args |-> args]>>]

(***************************************************************************)
(* The file system methods, as functions of the route table: what each     *)
(* returns or raises and the handler calls it makes.                       *)
(***************************************************************************)
Outcome(ret, calls) == [st |-> ret.st, v |-> ret.v, calls |-> calls]

IsNode(v) == v.t \in {"Dir", "File"}

\* x.contents, as a Python value
contents_of(v) == IF v.t = "Dir" THEN List(v.contents) ELSE Str(v.contents)

\* a slice that takes hi - lo items from the start, whatever lo is
PySlice_from_start(seq, lo, hi) ==
    LET n == IF hi - lo < Len(seq) THEN hi - lo ELSE Len(seq)
    IN  [k \in 1..n |-> seq[k]]

\* seq[lo:hi] for 0 <= lo <= hi
PySlice(seq, lo, hi) ==
    LET a == IF lo < Len(seq) THEN lo ELSE Len(seq)
        b == IF hi < Len(seq) THEN hi ELSE Len(seq)
    IN  [k \in 1..(b - a) |-> seq[a + k]]

\* _DiazedFileSystem._raise_readonlyfs
raise_readonlyfs == Raised("FuseOSError(EROFS)")

\* a readdir that returns the contents alone
fs_readdir_bare(rt, path) ==
    LET r == route(rt, "readdir", path) IN
    IF r.st = "raise" THEN r
    ELSE IF ~IsNode(r.v) THEN Outcome(Raised("AttributeError"), r.calls)
    ELSE Outcome(Returned(contents_of(r.v)), r.calls)

\* _DiazedFileSystem.readdir
fs_readdir(rt, path) ==
    LET r == route(rt, "readdir", path) IN
    IF r.st = "raise" THEN r
    ELSE IF ~IsNode(r.v) THEN Outcome(Raised("AttributeError"), r.calls)
    ELSE IF r.v.t = "File" THEN Outcome(Raised("TypeError"), r.calls)
    ELSE Outcome(Returned(List(<<<<".">>, <<".", ".">>>> \o r.v.contents)),
                 r.calls)

\* _DiazedFileSystem.readlink
fs_readlink(rt, path) ==
    LET r == route(rt, "readlink", path) IN
    IF r.st = "raise" THEN r
    ELSE IF ~IsNode(r.v) THEN Outcome(Raised("AttributeError"), r.calls)
    ELSE Outcome(Returned(contents_of(r.v)), r.calls)

\* route(...).attrs
attrs_of(r) ==
    IF ~IsNode(r.v) THEN Outcome(Raised("AttributeError"), r.calls)
    ELSE Outcome(Returned([t |-> "dict", v |-> r.v.attrs]), r.calls)

\* getattr asking the readlink table before the readdir table
getattr_order_swapped == <<"readlink", "readdir">>

\* the operation tables getattr tries, in order
getattr_order == <<"readdir", "readlink">>

\* a getattr that takes any failure of a dispatch for a missing route
fs_getattr_swallowing(rt, path) ==
    LET r1 == route(rt, getattr_order[1], path) IN
    IF r1.st = "return" THEN attrs_of(r1)
    ELSE LET r2 == route(rt, getattr_order[2], path) IN
         IF r2.st = "return"
         THEN Outcome(attrs_of(r2), r1.calls \o r2.calls)
         ELSE Outcome(Raised("FuseOSError(ENOENT)"), r1.calls \o r2.calls)

\* _DiazedFileSystem.getattr
fs_getattr(rt, path) ==
    LET r1 == route(rt, getattr_order[1], path) IN
    IF r1.st = "return" THEN attrs_of(r1)
    ELSE IF r1.v # "UnableToRouteException" THEN r1
    ELSE LET r2 == route(rt, getattr_order[2], path) IN
         IF r2.st = "return" THEN attrs_of(r2)
         ELSE IF r2.v # "UnableToRouteException" THEN r2
         ELSE Outcome(Raised("FuseOSError(ENOENT)"), <<>>)

\* a getxattr that reports a path without a route as missing
fs_getxattr_enoent(rt, path) ==
    LET r == route(rt, "getxattr", path) IN
    IF r.st = "raise" /\ r.v = "UnableToRouteException"
    THEN Outcome(Raised("FuseOSError(ENOENT)"), <<>>)
    ELSE r

\* _DiazedFileSystem.getxattr
fs_getxattr(rt, path) ==
    LET r == route(rt, "getxattr", path) IN
    IF r.st = "raise" /\ r.v = "UnableToRouteException"
    THEN Outcome(Returned(Str(<<>>)), <<>>)
    ELSE r

\* _DiazedFileSystem.listxattr
fs_listxattr(rt, path) ==
    LET r == route(rt, "listxattr", path) IN
    IF r.st = "raise" /\ r.v = "UnableToRouteException"
    THEN Outcome(Returned(List(<<>>)), <<>>)
    ELSE r

\* a counter that is read but not advanced
next_fd_stuck(n) == n

\* self.fd += 1
next_fd(n) == n + 1

\* _DiazedFileSystem.open; the field fd is the counter afterwards
fs_open(rt, n, path) ==
    LET r == route(rt, "open", path) IN
    IF r.st = "raise" /\ r.v # "UnableToRouteException"
    THEN [st |-> r.st, v |-> r.v, calls |-> r.calls, fd |-> n]
    ELSE [st |-> "return", v |-> PyInt(next_fd(n)), calls |-> r.calls,
          fd |-> next_fd(n)]

\* a read that slices the payload of a read route as well
fs_read_sliced(rt, path, size, offset) ==
    LET r == route(rt, "read", path)
        l == IF r.st = "return" THEN r ELSE fs_readlink(rt, path)
    IN  IF l.st = "raise" THEN l
        ELSE IF ~IsNode(l.v) /\ r.st = "return"
        THEN Outcome(Raised("AttributeError"), l.calls)
        ELSE LET c == IF r.st = "return" THEN contents_of(l.v) ELSE l.v IN
             Outcome(Returned([t |-> c.t,
                               v |-> PySlice(c.v, offset, offset + size)]),
                     l.calls)

\* _DiazedFileSystem.read
fs_read(rt, path, size, offset) ==
    LET r == route(rt, "read", path) IN
    IF r.st = "return"
    THEN IF IsNode(r.v) THEN Outcome(Returned(contents_of(r.v)), r.calls)
         ELSE Outcome(Raised("AttributeError"), r.calls)
    ELSE IF r.v # "UnableToRouteException" THEN r
    ELSE LET l == fs_readlink(rt, path) IN
         IF l.st = "raise" THEN l
         ELSE Outcome(Returned([t |-> l.v.t,
                                v |-> PySlice(l.v.v, offset, offset + size)]),
                      l.calls)

\* a mutating method that lets a route registered under its name answer
fs_mutating_routed(rt, operation, path) ==
    LET r == route(rt, operation, path) IN
    IF r.st = "raise" /\ r.v = "UnableToRouteException"
    THEN Outcome(raise_readonlyfs, <<>>)
    ELSE r

\* create, write, truncate, unlink, chmod, chown, mkdir, removexattr, rename,
\* rmdir, setxattr, symlink, utimens: each is self._raise_readonlyfs()
fs_mutating(rt, operation, path) == Outcome(raise_readonlyfs, <<>>)

\* _get_decorator._decorator: fs.on for every path and operation, in the
\* order of the loops; stops at the first on() that raises
RECURSIVE decorate(_, _, _, _, _, _)
decorate(rt, operations, paths, fn, p, o) ==
    IF p > Len(paths) THEN [st |-> "return", routes |-> rt]
    ELSE IF o > Len(operations) THEN decorate(rt, operations, paths, fn, p + 1, 1)
    ELSE LET r == on(rt, operations[o], paths[p],
                     [fn |-> fn, ensure |-> TRUE])
         IN  IF r.st = "raise" THEN r
             ELSE decorate(r.routes, operations, paths, fn, p, o + 1)

get_decorator(rt, operations, paths, fn) ==
    decorate(rt, operations, paths, fn, 1, 1)

(***************************************************************************)
(* Inputs: the templates a client registers, with which handler and        *)
(* through which decorator, and the paths the kernel asks for.             *)
(***************************************************************************)
T_root == <<"/">>
T_a == <<"/", "<", "a", ">">>
T_b == <<"/", "<", "b", ">">>
T_x == <<"/", "x">>
T_ab == <<"/", "<", "a", ">", "/", "<", "b", ">">>
T_paren == <<"/", "(", "x", ")">>
T_open == <<"/", "(", "x">>
T_dot == <<"/", ".">>

Paths == {<<"/">>, <<"/", "x">>, <<"/", "y">>, <<"/", "x", "/", "y">>}

\* @readlink(path) def fn
ReadlinkInputs == {<<T_a, "read_file">>, <<T_b, "list_dir">>,
                   <<T_x, "read_example">>, <<T_paren, "read_example">>,
                   <<T_open, "read_example">>, <<T_dot, "read_example">>}
\* @readdir(path) def fn
ReaddirInputs == {<<T_a, "list_dir">>, <<T_root, "read_example">>,
                  <<T_x, "list_dir">>}
\* @mixed(operations, paths) def fn
MixedInputs == {<<<<"readlink", "readdir">>, <<T_ab>>, "pair">>,
                <<<<"read">>, <<T_x>>, "read_example">>}
\* fs.on(operation, route, fn)
OnInputs == {<<"open", T_a, "read_file">>, <<"create", T_a, "read_file">>,
             <<"readlink", T_x, "read_example">>}

TotalRoutes(rt) ==
    Cardinality(UNION {{<<op, i>> : i \in 1..Len(rt[op])} : op \in Operations})

Obs(op, path, size, offset, r) ==
    [op |-> op, path |-> path, size |-> size, offset |-> offset,
     res |-> [st |-> r.st, v |-> r.v], calls |-> r.calls]

RegObs(op, r) ==
    Obs(op, <<>>, 0, 0,
        Outcome(IF r.st = "return" THEN Returned(None) ELSE Raised("re.error"),
                <<>>))

\* no call is in progress: the driver has taken the last reply
Idle == [op |-> "idle"]

Init ==
    /\ routes = [op \in Operations |-> <<>>]
    /\ fd = 0
    /\ handles = <<>>
    /\ timedelta = 0
    /\ cache = <<>>
    /\ cache_expiry = <<>>
    /\ threads = <<>>
    /\ transaction_list_cache = <<>>
    /\ listing = [cache |-> <<>>, cache_expiry |-> <<>>]
    /\ now = 0
    /\ last = Idle

(***************************************************************************)
(* Registration.                                                           *)
(***************************************************************************)
Register(op, r) ==
    /\ last = Idle
    /\ TotalRoutes(r.routes) <= MaxRoutes
    /\ routes' = r.routes
    /\ last' = RegObs(op, r)
    /\ UNCHANGED <<fd, handles, cachevars, threads, mondovars>>

\* diazed.readlink
readlink(path, fn) ==
    Register("@readlink", get_decorator(routes, <<"readlink">>, <<path>>, fn))

\* diazed.readdir
readdir(path, fn) ==
    Register("@readdir", get_decorator(routes, <<"readdir">>, <<path>>, fn))

\* diazed.mixed
mixed(operations, paths, fn) ==
    Register("@mixed", get_decorator(routes, operations, paths, fn))

\* a direct call of fs.on with the handler itself
On(operation, path, fn) ==
    Register("on", on(routes, operation, path, [fn |-> fn, ensure |-> FALSE]))

(***************************************************************************)
(* The file system methods the FUSE driver calls.                          *)
(***************************************************************************)
Call(op, path, size, offset, r) ==
    /\ last = Idle
    /\ last' = Obs(op, path, size, offset, r)
    /\ UNCHANGED <<fsvars, cachevars, threads, mondovars>>

Readdir(path) == Call("readdir", path, 0, 0, fs_readdir(routes, path))
Readlink(path) == Call("readlink", path, 0, 0, fs_readlink(routes, path))
Getattr(path) == Call("getattr", path, 0, 0, fs_getattr(routes, path))
Getxattr(path) == Call("getxattr", path, 0, 0, fs_getxattr(routes, path))
Listxattr(path) == Call("listxattr", path, 0, 0, fs_listxattr(routes, path))
Read(path, size, offset) ==
    Call("read", path, size, offset, fs_read(routes, path, size, offset))

\* _DiazedFileSystem.statfs
Statfs(path) ==
    Call("statfs", path, 0, 0, Outcome(Returned([t |-> "dict", v |-> <<>>]), <<>>))

Open(path) ==
    LET r == fs_open(routes, fd, path) IN
    /\ last = Idle
    /\ Len(handles) < MaxOpens
    /\ fd' = r.fd
    /\ handles' = IF r.st = "return" THEN Append(handles, r.v.v) ELSE handles
    /\ last' = Obs("open", path, 0, 0, r)
    /\ UNCHANGED <<routes, cachevars, threads, mondovars>>

Mutate(op, path) == Call(op, path, 0, 0, fs_mutating(routes, op, path))

Create(path) == Mutate("create", path)
Write(path) == Mutate("write", path)
Truncate(path) == Mutate("truncate", path)
Unlink(path) == Mutate("unlink", path)
Chmod(path) == Mutate("chmod", path)
Chown(path) == Mutate("chown", path)
Mkdir(path) == Mutate("mkdir", path)
Removexattr(path) == Mutate("removexattr", path)
Rename(path) == Mutate("rename", path)
Rmdir(path) == Mutate("rmdir", path)
Setxattr(path) == Mutate("setxattr", path)
Symlink(path) == Mutate("symlink", path)
Utimens(path) == Mutate("utimens", path)

\* the call returns (or raises) to its caller, which then makes the next one:
\* calls are made one at a time
Return ==
    /\ last # Idle
    /\ last' = Idle
    /\ UNCHANGED <<fsvars, cachevars, threads, mondovars>>

Next ==
    \/ Return
    \/ \E i \in ReadlinkInputs : readlink(i[1], i[2])
    \/ \E i \in ReaddirInputs : readdir(i[1], i[2])
    \/ \E i \in MixedInputs : mixed(i[1], i[2], i[3])
    \/ \E i \in OnInputs : On(i[1], i[2], i[3])
    \/ \E path \in Paths :
        \/ Readdir(path)
        \/ Readlink(path)
        \/ Getattr(path)
        \/ Getxattr(path)
        \/ Listxattr(path)
        \/ Open(path)
        \/ \E size \in 0..MaxSize, offset \in 0..MaxSize : Read(path, size, offset)
        \/ Statfs(path)
        \/ Create(path)
        \/ Write(path)
        \/ Truncate(path)
        \/ Unlink(path)
        \/ Chmod(path)
        \/ Chown(path)
        \/ Mkdir(path)
        \/ Removexattr(path)
        \/ Rename(path)
        \/ Rmdir(path)
        \/ Setxattr(path)
        \/ Symlink(path)
        \/ Utimens(path)

Spec == Init /\ [][Next]_vars

(***************************************************************************)
(* decorators.cache.  json.dumps is computed character by character.       *)
(***************************************************************************)
RECURSIVE dumps(_)
RECURSIVE dumps_items(_, _)
\* json.dumps of the items i.. of a list or tuple, separated by ", "
dumps_items(items, i) ==
    IF i > Len(items) THEN <<>>
    ELSE (IF i > 1 THEN <<",", " ">> ELSE <<>>)
         \o dumps(items[i]) \o dumps_items(items, i + 1)

\* json.dumps(x): a tuple is encoded as a list is
dumps(x) ==
    CASE x.t = "str" -> <<"\"">> \o x.v \o <<"\"">>
      [] x.t = "int" -> Digits(x.v)
      [] x.t = "bool" -> IF x.v THEN <<"t", "r", "u", "e">>
                         ELSE <<"f", "a", "l", "s", "e">>
      [] x.t \in {"list", "tuple"} -> <<"[">> \o dumps_items(x.v, 1) \o <<"]">>

RECURSIVE dumps_dict(_, _)
\* json.dumps of a dict given as its (key, value) pairs in iteration order
dumps_dict(pairs, i) ==
    IF i > Len(pairs) THEN <<>>
    ELSE (IF i > 1 THEN <<",", " ">> ELSE <<>>)
         \o <<"\"">> \o pairs[i][1] \o <<"\"", ":", " ">> \o dumps(pairs[i][2])
         \o dumps_dict(pairs, i + 1)

\* key = json.dumps(args) + json.dumps(kwargs)
cache_key(args, kwargs) ==
    dumps(Tuple(args)) \o <<"{">> \o dumps_dict(kwargs, 1) \o <<"}">>

\* dict.get(key, None)
dict_get(d, key) == IF key \in DOMAIN d THEN d[key] ELSE None

\* d[key] = value
dict_set(d, key, value) ==
    [k \in DOMAIN d \cup {key} |-> IF k = key THEN value ELSE d[k]]

Datetime(n) == [t |-> "datetime", v |-> n]

\* an entry still served at the instant it expires
not_expired_inclusive(t, expires) == t <= expires.v

\* datetime.datetime.now() < expires
not_expired(t, expires) == t < expires.v

\* fn(*args, **kwargs) called at time t: the wrapped handlers read a remote
\* service, so what they return depends on when they are asked
fn_call(fn, args, kwargs, t, raises) ==
    IF raises THEN Raised("IOError")
    ELSE Returned([t |-> "result", fn |-> fn, args |-> args,
                   kwargs |-> kwargs, at |-> t])

\* a cache that keeps a failure: a raising call leaves the entry of its key
\* holding None until now + ttl
cached_call_failure_kept(c, x, ttl, fn, args, kwargs, t, elapsed, raises) ==
    LET key == cache_key(args, kwargs)
        expires == dict_get(x, key)
        hit == expires.t # "None" /\ not_expired(t, expires)
        ret == fn_call(fn, args, kwargs, t, raises)
    IN  IF hit
        THEN [cache |-> c, cache_expiry |-> x, now |-> t,
              ret |-> Returned(c[key]), invoked |-> 0]
        ELSE [cache |-> dict_set(c, key, IF raises THEN None ELSE ret.v),
              cache_expiry |-> dict_set(x, key, Datetime(t + elapsed + ttl)),
              now |-> t + elapsed,
              ret |-> ret, invoked |-> 1]

\* cache._decorator._cache: one call of a wrapped function, on the dicts c
\* (cache) and x (cache_expiry) of its store, at time t; the handler takes
\* `elapsed` to answer.  Yields the dicts afterwards, the outcome, and how
\* often fn was invoked.
cached_call(c, x, ttl, fn, args, kwargs, t, elapsed, raises) ==
    LET key == cache_key(args, kwargs)
        expires == dict_get(x, key)
        hit == expires.t # "None" /\ not_expired(t, expires)
        c1 == IF expires.t # "None" THEN dict_set(c, key, None) ELSE c
        x1 == IF expires.t # "None" THEN dict_set(x, key, None) ELSE x
        ret == fn_call(fn, args, kwargs, t, raises)
    IN  IF hit
        THEN [cache |-> c, cache_expiry |-> x, now |-> t,
              ret |-> Returned(c[key]), invoked |-> 0]
        ELSE IF ret.st = "raise"
        THEN [cache |-> c1, cache_expiry |-> x1, now |-> t + elapsed,
              ret |-> ret, invoked |-> 1]
        ELSE [cache |-> dict_set(c1, key, ret.v),
              cache_expiry |-> dict_set(x1, key, Datetime(t + elapsed + ttl)),
              now |-> t + elapsed,
              ret |-> ret, invoked |-> 1]

(***************************************************************************)
(* Inputs of the cache.  One call of cache(timedelta) makes one decorator  *)
(* object with its two dicts; the decorator wraps the functions of Fns,    *)
(* which all use those dicts.  Decorator objects of other calls of         *)
(* cache() have dicts of their own and are further copies of this model.   *)
(***************************************************************************)
Timedeltas == {0, 2}
Fns == {"f", "g"}

CallInputs ==
    {[args |-> <<Str(<<"a">>)>>, kwargs |-> <<>>],
     [args |-> <<Tuple(<<PyInt(1)>>)>>, kwargs |-> <<<<<<"x">>, Str(<<"a">>)>>>>],
     [args |-> <<List(<<PyInt(1)>>)>>, kwargs |-> <<<<<<"x">>, Str(<<"a">>)>>>>]}

\* cache(timedelta) has been called and has made its empty dicts
InitCache ==
    /\ routes = [op \in Operations |-> <<>>]
    /\ fd = 0
    /\ handles = <<>>
    /\ timedelta \in Timedeltas
    /\ cache = <<>>
    /\ cache_expiry = <<>>
    /\ threads = <<>>
    /\ transaction_list_cache = <<>>
    /\ listing = [cache |-> <<>>, cache_expiry |-> <<>>]
    /\ now = 0
    /\ last = Idle

\* a call of the wrapped function _decorator(fn)
CachedCall(fn, args, kwargs, elapsed, raises) ==
    LET r == cached_call(cache, cache_expiry, timedelta,
                         fn, args, kwargs, now, elapsed, raises)
    IN  /\ last = Idle
        /\ r.now <= MaxTime
        /\ cache' = r.cache
        /\ cache_expiry' = r.cache_expiry
        /\ now' = r.now
        /\ last' = [op |-> "cached_call", fn |-> fn,
                    args |-> args, kwargs |-> kwargs,
                    key |-> cache_key(args, kwargs), at |-> now,
                    had |-> dict_get(cache_expiry, cache_key(args, kwargs)),
                    held |-> dict_get(cache, cache_key(args, kwargs)),
                    res |-> r.ret, invoked |-> r.invoked]
        /\ UNCHANGED <<fsvars, timedelta, threads, mondovars>>

\* time passes between calls
Tick ==
    /\ last = Idle
    /\ now < MaxTime
    /\ now' = now + 1
    /\ UNCHANGED <<fsvars, timedelta, cache, cache_expiry, last, threads, mondovars>>

NextCache ==
    \/ Return
    \/ Tick
    \/ \E fn \in Fns, i \in CallInputs, elapsed \in {0, 1}, raises \in BOOLEAN :
           CachedCall(fn, i.args, i.kwargs, elapsed, raises)

SpecCache == InitCache /\ [][NextCache]_vars

(***************************************************************************)
(* Properties of the router and the file system methods (Spec).            *)
(***************************************************************************)
\* the methods that make exactly one dispatch, on the table of their own name
DispatchOps == {"readdir", "readlink", "getxattr", "listxattr", "open"}

\* the routes of a table whose pattern matches the path
MatchSet(table, path) == {i \in 1..Len(table) : re_match(table[i].re, path).ok}
Min(S) == CHOOSE x \in S : \A y \in S : x <= y
Earliest(table, path) == table[Min(MatchSet(table, path))]

\* the number of <name> placeholders of a template
Placeholders(template) ==
    Cardinality({i \in 1..Len(template) : template[i] = "<"})

RECURSIVE Fill(_, _, _, _)
\* the template with its k-th placeholder replaced by args[k], from index i on
Fill(template, args, i, k) ==
    IF i > Len(template) THEN <<>>
    ELSE IF template[i] = "<"
         THEN args[k] \o Fill(template, args, FirstClose(template, i) + 1, k + 1)
         ELSE <<template[i]>> \o Fill(template, args, i + 1, k)

\* what the callback of route r makes of the path
Produced(r, path) == curry(r.callback, re_match(r.re, path).groups)

\* C1: a dispatch invokes the handler of the earliest-registered route of the
\* operation whose pattern matches the path, with that route's captures, and
\* no other handler; it invokes none when no route matches.
C1_FirstMatch ==
    last.op \in DispatchOps =>
        LET table == routes[last.op] IN
        IF MatchSet(table, last.path) = {}
        THEN Len(last.calls) = 0
        ELSE /\ Len(last.calls) = 1
             /\ last.calls[1].fn = Earliest(table, last.path).callback.fn
             /\ last.calls[1].args
                    = re_match(Earliest(table, last.path).re, last.path).groups

\* two routes of the table match the path, bound to different handlers, and
\* the earlier one's handler was the one invoked
C1_Witness ==
    /\ last.op = "readlink"
    /\ \E i, j \in MatchSet(routes["readlink"], last.path) :
           /\ i < j
           /\ routes["readlink"][i].callback.fn # routes["readlink"][j].callback.fn
           /\ routes["readlink"][j].template = T_x
    /\ Len(last.calls) = 1
    /\ last.calls[1].fn
           = routes["readlink"][Min(MatchSet(routes["readlink"], last.path))].callback.fn

\* C2: the handler of a matched template with N placeholders is called with
\* exactly N positional arguments, the i-th being the text the i-th
\* placeholder stands for in the path.
C2_PositionalArgs ==
    (last.op \in DispatchOps /\ MatchSet(routes[last.op], last.path) # {}) =>
        LET r == Earliest(routes[last.op], last.path) IN
        /\ Len(last.calls) = 1
        /\ Len(last.calls[1].args) = Placeholders(r.template)
        /\ Fill(r.template, last.calls[1].args, 1, 1) = last.path

\* whether getattr's dispatch on a table found a route whose handler made a node
Resolved(op, path) ==
    /\ MatchSet(routes[op], path) # {}
    /\ Produced(Earliest(routes[op], path), path).st = "return"
    /\ IsNode(Produced(Earliest(routes[op], path), path).v)

FileAttrs(attrs, node) ==
    /\ attrs.st_mode = S_IFREG_0444
    /\ attrs.st_size = Len(node.contents)

\* getattr answered from the first matching route of table op alone
GetattrFrom(op) ==
    LET r == Earliest(routes[op], last.path) IN
    /\ last.calls = <<[fn |-> r.callback.fn,
                       args |-> re_match(r.re, last.path).groups]>>
    /\ last.res.st = "return"
    /\ last.res.v.v = Produced(r, last.path).v.attrs

C4_NoSuchEntry ==
    /\ (/\ last.op \in {"readdir", "readlink"}
        /\ MatchSet(routes[last.op], last.path) = {}) =>
           (last.res.st = "raise" /\ last.res.v = "FuseOSError(ENOENT)")
    /\ (/\ last.op = "read"
        /\ MatchSet(routes["read"], last.path) = {}
        /\ MatchSet(routes["readlink"], last.path) = {}) =>
           (last.res.st = "raise" /\ last.res.v = "FuseOSError(ENOENT)")

\* C5: a mutating method raises the read-only error, calls no handler and
\* changes neither the route tables, nor the handle counter, nor the cache.
C5_ReadOnly ==
    [][last'.op \in MutatingOps =>
           /\ last'.res.st = "raise"
           /\ last'.res.v = "FuseOSError(EROFS)"
           /\ Len(last'.calls) = 0
           /\ UNCHANGED <<routes, fd, handles, timedelta, cache, cache_expiry,
                        threads, mondovars>>]_vars

\* a mutating method called on a path that a route registered under the
\* method's own name matches
C5_Witness ==
    /\ last.op = "create"
    /\ MatchSet(routes["create"], last.path) # {}
    /\ last.res.st = "raise"
    /\ last.res.v = "FuseOSError(EROFS)"

\* C6: the handle ids open has returned are strictly increasing, each is the
\* counter's value after its call, and open on a path without a matching
\* open route returns a handle.
C6_Handles ==
    /\ \A i, j \in 1..Len(handles) : i < j => handles[i] < handles[j]
    /\ last.op = "open" =>
           /\ MatchSet(routes["open"], last.path) = {} => last.res.st = "return"
           /\ last.res.st = "return" =>
                  /\ last.res.v = PyInt(fd)
                  /\ handles[Len(handles)] = fd

\* a second open, on a path that the registered open route does not match
C6_Witness ==
    /\ last.op = "open"
    /\ Len(handles) >= 2
    /\ Len(routes["open"]) > 0
    /\ MatchSet(routes["open"], last.path) = {}
    /\ last.res.st = "return"

(***************************************************************************)
(* Properties of the cache (SpecCache).                                    *)
(***************************************************************************)
\* Python's == on the values used as arguments: a tuple never equals a list
PyEq(a, b) == a.t = b.t /\ a.v = b.v

SameArgs(a, b) ==
    /\ Len(a.args) = Len(b.args)
    /\ \A i \in 1..Len(a.args) : PyEq(a.args[i], b.args[i])
    /\ Len(a.kwargs) = Len(b.kwargs)
    /\ \A i \in 1..Len(a.kwargs) :
           a.kwargs[i][1] = b.kwargs[i][1] /\ PyEq(a.kwargs[i][2], b.kwargs[i][2])

\* what the handler of the last call returns when invoked by that call
Fresh ==
    [t |-> "result", fn |-> last.fn, args |-> last.args,
     kwargs |-> last.kwargs, at |-> last.at]

\* C7: with a TTL above zero, a call that finds an entry for its key whose
\* expiry is still in the future returns the stored value and does not invoke
\* the handler; a call that finds no entry, or one whose expiry has been
\* reached, invokes the handler once and stores its result with the expiry
\* now + TTL.
C7_TtlCache ==
    (last.op = "cached_call" /\ timedelta > 0) =>
        IF last.had.t = "datetime" /\ last.at < last.had.v
        THEN /\ last.invoked = 0
             /\ last.res.st = "return"
             /\ last.res.v = last.held
             /\ cache[last.key] = last.held
             /\ cache_expiry[last.key] = last.had
        ELSE /\ last.invoked = 1
             /\ last.res.st = "return" =>
                    /\ last.res.v = Fresh
                    /\ cache[last.key] = Fresh
                    /\ cache_expiry[last.key] = Datetime(now + timedelta)

\* a call served from an entry stored at an earlier time and not yet expired
C7_Witness ==
    /\ last.op = "cached_call"
    /\ timedelta > 0
    /\ last.invoked = 0
    /\ last.res.v.at < last.at
    /\ last.at < last.had.v

\* C8: with a TTL of zero every call invokes the handler and returns what
\* that invocation returned.
C8_ZeroTtl ==
    (last.op = "cached_call" /\ timedelta = 0) =>
        /\ last.invoked = 1
        /\ last.res.st = "return" => last.res.v = Fresh

\* a call that finds an entry stored by a call with the same arguments to the
\* same handler at this very instant (the clock has not advanced), and
\* invokes the handler all the same
C8_Witness ==
    /\ last.op = "cached_call"
    /\ timedelta = 0
    /\ last.had.t = "datetime"
    /\ last.had.v = last.at
    /\ last.held = Fresh
    /\ last.invoked = 1
    /\ last.res.st = "return"

\* C9: two calls have the same cache key if and only if their arguments are
\* equal: an entry found under a call's key was stored for equal arguments,
\* equal arguments give the same key, and a call returns a value computed
\* for its own arguments.
C9_KeyInjective ==
    last.op = "cached_call" =>
        /\ last.held.t = "result" => SameArgs(last.held, last)
        /\ \A i \in CallInputs :
               SameArgs(i, last) => cache_key(i.args, i.kwargs) = last.key
        /\ last.res.st = "return" => SameArgs(last.res.v, last)

\* C10: a call to a cached handler returns a value computed by that handler.
C10_OwnHandler ==
    (last.op = "cached_call" /\ last.res.st = "return") =>
        last.res.v.fn = last.fn

(***************************************************************************)
(* Properties of read and readdir (Spec).                                  *)
(***************************************************************************)
\* the payload of the node the first matching route of table op makes
Payload(op, path) == Produced(Earliest(routes[op], path), path).v.contents

\* whether seq is the items of payload at the positions lo .. hi - 1 that exist
IsRange(seq, payload, lo, hi) ==
    LET end == IF hi < Len(payload) THEN hi ELSE Len(payload)
        n == IF end > lo THEN end - lo ELSE 0
    IN  /\ Len(seq) = n
        /\ \A k \in 1..n : seq[k] = payload[lo + k]

\* C11: read on a path that no read route matches and whose first matching
\* readlink route makes a node returns the items of that node's full payload
\* at the positions offset .. min(offset + size, length) - 1: nothing past the
\* end, and nothing at all when offset is at or beyond the length.  It makes
\* the one call of the readlink handler.
C11_ReadFallback ==
    (/\ last.op = "read"
     /\ MatchSet(routes["read"], last.path) = {}
     /\ Resolved("readlink", last.path)) =>
        LET r == Earliest(routes["readlink"], last.path) IN
        /\ last.res.st = "return"
        /\ last.res.v.t = contents_of(Produced(r, last.path).v).t
        /\ IsRange(last.res.v.v, Payload("readlink", last.path),
                   last.offset, last.offset + last.size)
        /\ last.calls = <<[fn |-> r.callback.fn,
                           args |-> re_match(r.re, last.path).groups]>>

\* the payload hello read at offset 2 with size 3 gives llo
C11_Witness ==
    /\ last.op = "read"
    /\ MatchSet(routes["read"], last.path) = {}
    /\ Resolved("readlink", last.path)
    /\ Payload("readlink", last.path) = <<"h", "e", "l", "l", "o">>
    /\ last.offset = 2
    /\ last.size = 3
    /\ last.res.st = "return"
    /\ last.res.v.v = <<"l", "l", "o">>

\* C12: when a read route matches the path, read calls the handler of the
\* first matching read route and no other handler, and when that handler made
\* a node it returns the node's whole payload, whatever size and offset are.
C12_ReadRouted ==
    (/\ last.op = "read"
     /\ MatchSet(routes["read"], last.path) # {}) =>
        LET r == Earliest(routes["read"], last.path) IN
        /\ last.calls = <<[fn |-> r.callback.fn,
                           args |-> re_match(r.re, last.path).groups]>>
        /\ Resolved("read", last.path) =>
               /\ last.res.st = "return"
               /\ last.res.v = contents_of(Produced(r, last.path).v)

\* a read of one byte at offset 1 on a path that a read route and a readlink
\* route with another handler both match: the read route's whole payload
C12_Witness ==
    /\ last.op = "read"
    /\ Resolved("read", last.path)
    /\ MatchSet(routes["readlink"], last.path) # {}
    /\ Earliest(routes["readlink"], last.path).callback.fn
           # Earliest(routes["read"], last.path).callback.fn
    /\ last.size = 1
    /\ last.offset = 1
    /\ last.res.st = "return"
    /\ Len(last.res.v.v) = 5

\* what the handler of route r itself returns for the path, before any coercion
Handled(r, path) == handler_call(r.callback.fn, re_match(r.re, path).groups)

\* C13: readdir on a path whose first matching readdir route makes a Dir
\* returns "." and ".." followed by the items the handler returned, each once
\* and in the handler's order.
C13_ReaddirListing ==
    (/\ last.op = "readdir"
     /\ Resolved("readdir", last.path)
     /\ Produced(Earliest(routes["readdir"], last.path), last.path).v.t = "Dir") =>
        LET children == Handled(Earliest(routes["readdir"], last.path),
                                last.path).v.v
        IN  /\ last.res.st = "return"
            /\ last.res.v.t = "list"
            /\ Len(last.res.v.v) = 2 + Len(children)
            /\ last.res.v.v[1] = <<".">>
            /\ last.res.v.v[2] = <<".", ".">>
            /\ \A k \in 1..Len(children) : last.res.v.v[2 + k] = children[k]

\* the listing of /x by the handler that returns the entries x and j
C13_Witness ==
    /\ last.op = "readdir"
    /\ Resolved("readdir", last.path)
    /\ last.res.st = "return"
    /\ last.res.v.v = <<<<".">>, <<".", ".">>, <<"x">>, <<"j">>>>

(***************************************************************************)
(* Properties of templates and registration (Spec).                        *)
(***************************************************************************)
\* the routes in the tables, as (operation, index) pairs
AllRoutes == UNION {{<<op, i>> : i \in 1..Len(routes[op])} : op \in Operations}

\* whether a template is made of placeholders and plain characters only
Plain(template) ==
    \A i \in 1..Len(template) : template[i] \notin {"(", ")", "."}

\* C14: a route whose template has placeholders (and otherwise plain
\* characters) matches a path only with every placeholder standing for a
\* non-empty text without a path separator.
C14_PlaceholderNonEmpty ==
    \A x \in AllRoutes, path \in Paths :
        LET r == routes[x[1]][x[2]]
            m == re_match(r.re, path)
        IN  (Plain(r.template) /\ m.ok) =>
                \A k \in 1..Len(m.groups) :
                    /\ Len(m.groups[k]) > 0
                    /\ \A c \in 1..Len(m.groups[k]) : m.groups[k][c] # "/"

\* C15: a route whose template has no placeholder matches a path if and only
\* if the path is the template, character for character.
C15_LiteralTemplate ==
    \A x \in AllRoutes, path \in Paths :
        LET r == routes[x[1]][x[2]] IN
        Placeholders(r.template) = 0 =>
            (re_match(r.re, path).ok <=> path = r.template)

\* C16: every route in a table has a handler that declares as many positional
\* parameters as its template has placeholders (a registration that would
\* break this fails and adds no route).
C16_ArityChecked ==
    \A x \in AllRoutes :
        LET r == routes[x[1]][x[2]] IN
        handler_arity(r.callback.fn) = Placeholders(r.template)

\* C18: whatever route is in a table and however it was registered, what its
\* callback returns for a path it matches is a Dir or a File.
C18_AlwaysNode ==
    \A x \in AllRoutes, path \in Paths :
        LET r == routes[x[1]][x[2]] IN
        (re_match(r.re, path).ok /\ Produced(r, path).st = "return") =>
            IsNode(Produced(r, path).v)

(***************************************************************************)
(* _ensure_obj on its own: a value is drawn, then coerced, then the result *)
(* is coerced again.                                                       *)
(***************************************************************************)
Chars == {"a", "b"}

SeqsUpTo(S, n) == UNION {[1..k -> S] : k \in 0..n}

Strings == SeqsUpTo(Chars, MaxLen)

NoDuplicates(s) == \A i, j \in 1..Len(s) : s[i] = s[j] => i = j

\* the values a handler may return
Values ==
    {None}
    \cup {Str(s) : s \in Strings}
    \cup {Unicode(s) : s \in SeqsUpTo({"a", e_acute}, MaxLen)}
    \cup {PyInt(n) : n \in 0..MaxInt}
    \cup {List(s) : s \in SeqsUpTo(Strings, MaxLen)}
    \cup {Tuple(s) : s \in SeqsUpTo(Strings, MaxLen)}
    \cup {Set(s) : s \in {q \in SeqsUpTo(Strings, MaxLen) : NoDuplicates(q)}}
    \cup {Dir(s) : s \in SeqsUpTo(Strings, MaxLen)}
    \cup {File(Str(s)) : s \in Strings}

InitEnsure ==
    /\ routes = [op \in Operations |-> <<>>]
    /\ fd = 0
    /\ handles = <<>>
    /\ timedelta = 0
    /\ cache = <<>>
    /\ cache_expiry = <<>>
    /\ threads = <<>>
    /\ transaction_list_cache = <<>>
    /\ listing = [cache |-> <<>>, cache_expiry |-> <<>>]
    /\ now = 0
    /\ last \in {[op |-> "value", x |-> v] : v \in Values}

\* _ensure_obj(x)
EnsureObj ==
    /\ last.op = "value"
    /\ last' = [op |-> "ensure_obj", x |-> last.x, res |-> ensure_obj(last.x)]
    /\ UNCHANGED <<fsvars, cachevars, threads, mondovars>>

\* _ensure_obj(_ensure_obj(x))
EnsureAgain ==
    /\ last.op = "ensure_obj"
    /\ IsNode(last.res)
    /\ last' = [op |-> "ensure_again", x |-> last.res,
                res |-> ensure_obj(last.res)]
    /\ UNCHANGED <<fsvars, cachevars, threads, mondovars>>

NextEnsure == EnsureObj \/ EnsureAgain

SpecEnsure == InitEnsure /\ [][NextEnsure]_vars

(***************************************************************************)
(* Properties of _ensure_obj (SpecEnsure).                                 *)
(***************************************************************************)
RECURSIVE DecimalValue(_)
\* the number a sequence of decimal digits writes
DecimalValue(s) ==
    IF Len(s) = 0 THEN 0
    ELSE 10 * DecimalValue(SubSeq(s, 1, Len(s) - 1))
         + (CHOOSE d \in 0..9 : DigitChars[d + 1] = s[Len(s)])

\* whether b is the byte form str(x) of a primitive value
IsByteForm(b, x) ==
    CASE x.t \in {"str", "unicode"} -> b = x.v
      [] x.t = "int" -> /\ Len(b) > 0
                        /\ \A k \in 1..Len(b) : \E d \in 1..10 : DigitChars[d] = b[k]
                        /\ Len(b) > 1 => b[1] # "0"
                        /\ DecimalValue(b) = x.v
      [] x.t = "None" -> b = <<"N", "o", "n", "e">>

Items(s) == {s[k] : k \in 1..Len(s)}

\* C17: _ensure_obj returns a Dir or a File for every value: the value itself
\* when it is a Dir or a File already (so that coercing twice is coercing
\* once); a Dir that lists the items of a list or a tuple in their order, and
\* the items of a set; otherwise a File whose contents is the byte form of
\* the value and whose st_size is the length of the contents.
C17_EnsureNode ==
    /\ last.op = "ensure_obj" =>
           LET x == last.x
               n == last.res
           IN  /\ IsNode(n)
               /\ x.t \in {"Dir", "File"} => n = x
               /\ x.t \in {"list", "tuple"} =>
                      (n.t = "Dir" /\ n.contents = x.v
                       /\ n.attrs.st_mode = S_IFDIR_0555)
               /\ x.t = "set" =>
                      (n.t = "Dir" /\ Len(n.contents) = Len(x.v)
                       /\ Items(n.contents) = Items(x.v))
               /\ x.t \notin {"Dir", "File", "list", "tuple", "set"} =>
                      /\ n.t = "File"
                      /\ IsByteForm(n.contents, x)
                      /\ n.attrs.st_mode = S_IFREG_0444
                      /\ n.attrs.st_size = Len(n.contents)
    /\ last.op = "ensure_again" => last.res = last.x

(***************************************************************************)
(* Concurrent calls of open.  fuse.FUSE is started without nothreads, so   *)
(* the driver calls the methods of the one file system object from several *)
(* threads, and a thread switch can fall between any two bytecodes: open   *)
(* is the dispatch, then the load of self.fd, the store of the sum, and    *)
(* the load of self.fd for the return value.  No statement of open holds a *)
(* lock.                                                                   *)
(***************************************************************************)
Threads == {1, 2}

IdleThread == [pc |-> "idle", path |-> <<>>, tmp |-> 0, ret |-> <<>>]

\* the file system has no route for open, or one added with fs.on
InitOpen ==
    /\ routes \in {[op \in Operations |-> <<>>],
                   on([op \in Operations |-> <<>>], "open", T_a,
                      [fn |-> "read_file", ensure |-> FALSE]).routes}
    /\ fd = 0
    /\ handles = <<>>
    /\ timedelta = 0
    /\ cache = <<>>
    /\ cache_expiry = <<>>
    /\ now = 0
    /\ last = Idle
    /\ threads = [t \in Threads |-> IdleThread]
    /\ transaction_list_cache = <<>>
    /\ listing = [cache |-> <<>>, cache_expiry |-> <<>>]

\* the driver calls open(path, flags) on thread t
OpenBegin(t, path) ==
    /\ threads[t].pc = "idle"
    /\ Len(threads[t].ret) < MaxOpens
    /\ threads' = [threads EXCEPT ![t].pc = "route", ![t].path = path]
    /\ UNCHANGED <<fsvars, cachevars, last, mondovars>>

\* try: self.route('open', path, **kwargs) except _UnableToRouteException: pass
OpenRoute(t) ==
    /\ threads[t].pc = "route"
    /\ LET r == route(routes, "open", threads[t].path) IN
       threads' = [threads EXCEPT ![t].pc =
                       IF r.st = "raise" /\ r.v # "UnableToRouteException"
                       THEN "idle" ELSE "load"]
    /\ UNCHANGED <<fsvars, cachevars, last, mondovars>>

\* self.fd += 1: the load of self.fd
OpenLoad(t) ==
    /\ threads[t].pc = "load"
    /\ threads' = [threads EXCEPT ![t].pc = "store", ![t].tmp = fd]
    /\ UNCHANGED <<fsvars, cachevars, last, mondovars>>

\* self.fd += 1: the store of the sum
OpenStore(t) ==
    /\ threads[t].pc = "store"
    /\ fd' = next_fd(threads[t].tmp)
    /\ threads' = [threads EXCEPT ![t].pc = "return"]
    /\ UNCHANGED <<routes, handles, cachevars, last, mondovars>>

\* return self.fd
OpenReturn(t) ==
    /\ threads[t].pc = "return"
    /\ handles' = Append(handles, fd)
    /\ threads' = [threads EXCEPT ![t].pc = "idle",
                                  ![t].ret = Append(@, fd)]
    /\ UNCHANGED <<routes, fd, cachevars, last, mondovars>>

NextOpen ==
    \E t \in Threads :
        \/ \E path \in Paths : OpenBegin(t, path)
        \/ OpenRoute(t)
        \/ OpenLoad(t)
        \/ OpenStore(t)
        \/ OpenReturn(t)

SpecOpen == InitOpen /\ [][NextOpen]_vars

\* C19: however the open calls of two threads interleave, no two of them
\* return the same handle id, and once they have all returned the counter
\* has advanced by one for each.
C19_OpenSerialized ==
    /\ NoDuplicates(handles)
    /\ (\A t \in Threads : threads[t].pc = "idle") => fd = Len(handles)

(***************************************************************************)
(* Concurrent calls of one cached handler with the same arguments.  The    *)
(* statements of _cache are steps of their own: no statement of _cache     *)
(* holds a lock, and the handler (an HTTP request) releases the            *)
(* interpreter lock while it waits.                                        *)
(***************************************************************************)
RaceFn == "f"
RaceInput == [args |-> <<Str(<<"a">>)>>, kwargs |-> <<>>]
RaceKey == cache_key(RaceInput.args, RaceInput.kwargs)

IdleCall == [pc |-> "idle", expires |-> None, val |-> None, invoked |-> 0,
             out |-> Returned(None)]

InitRace ==
    /\ routes = [op \in Operations |-> <<>>]
    /\ fd = 0
    /\ handles = <<>>
    /\ timedelta \in Timedeltas
    /\ cache = <<>>
    /\ cache_expiry = <<>>
    /\ now = 0
    /\ last = Idle
    /\ threads = [t \in Threads |-> IdleCall]
    /\ transaction_list_cache = <<>>
    /\ listing = [cache |-> <<>>, cache_expiry |-> <<>>]

\* a step of thread t that touches none of the dicts
Local(t, pc, next) ==
    /\ threads[t].pc = pc
    /\ threads' = [threads EXCEPT ![t] = next]
    /\ UNCHANGED <<fsvars, cachevars, last, mondovars>>

\* expires = cache_expiry.get(key, None)
CacheLookup(t) ==
    Local(t, "idle", [threads[t] EXCEPT !.pc = "check",
                                        !.expires = dict_get(cache_expiry, RaceKey)])

\* if expires: if datetime.datetime.now() < expires: ... else: ...
CacheCheck(t) ==
    Local(t, "check",
          [threads[t] EXCEPT !.pc =
               IF threads[t].expires.t = "None" THEN "invoke"
               ELSE IF not_expired(now, threads[t].expires) THEN "hit"
               ELSE "clear_value"])

\* return cache[key], on a hit
CacheReturnHit(t) ==
    Local(t, "hit", [threads[t] EXCEPT !.pc = "done",
                                       !.out = Returned(cache[RaceKey])])

\* cache[key] = None
CacheClearValue(t) ==
    /\ threads[t].pc = "clear_value"
    /\ cache' = dict_set(cache, RaceKey, None)
    /\ threads' = [threads EXCEPT ![t].pc = "clear_expiry"]
    /\ UNCHANGED <<fsvars, timedelta, cache_expiry, now, last, mondovars>>

\* cache_expiry[key] = None
CacheClearExpiry(t) ==
    /\ threads[t].pc = "clear_expiry"
    /\ cache_expiry' = dict_set(cache_expiry, RaceKey, None)
    /\ threads' = [threads EXCEPT ![t].pc = "invoke"]
    /\ UNCHANGED <<fsvars, timedelta, cache, now, last, mondovars>>

\* fn(*args, **kwargs): the handler returns a value or raises
CacheInvoke(t, raises) ==
    LET ret == fn_call(RaceFn, RaceInput.args, RaceInput.kwargs, now, raises) IN
    Local(t, "invoke",
          IF ret.st = "raise"
          THEN [threads[t] EXCEPT !.pc = "done", !.out = ret,
                                  !.invoked = @ + 1]
          ELSE [threads[t] EXCEPT !.pc = "store_value", !.val = ret.v,
                                  !.invoked = @ + 1])

\* cache[key] = (what fn returned)
CacheStoreValue(t) ==
    /\ threads[t].pc = "store_value"
    /\ cache' = dict_set(cache, RaceKey, threads[t].val)
    /\ threads' = [threads EXCEPT ![t].pc = "store_expiry"]
    /\ UNCHANGED <<fsvars, timedelta, cache_expiry, now, last, mondovars>>

\* cache_expiry[key] = datetime.datetime.now() + timedelta
CacheStoreExpiry(t) ==
    /\ threads[t].pc = "store_expiry"
    /\ cache_expiry' = dict_set(cache_expiry, RaceKey, Datetime(now + timedelta))
    /\ threads' = [threads EXCEPT ![t].pc = "return"]
    /\ UNCHANGED <<fsvars, timedelta, cache, now, last, mondovars>>

\* return cache[key], after the store
CacheReturn(t) ==
    Local(t, "return", [threads[t] EXCEPT !.pc = "done",
                                          !.out = Returned(cache[RaceKey])])

NextRace ==
    \/ Tick
    \/ \E t \in Threads :
        \/ CacheLookup(t)
        \/ CacheCheck(t)
        \/ CacheReturnHit(t)
        \/ CacheClearValue(t)
        \/ CacheClearExpiry(t)
        \/ \E raises \in BOOLEAN : CacheInvoke(t, raises)
        \/ CacheStoreValue(t)
        \/ CacheStoreExpiry(t)
        \/ CacheReturn(t)

SpecRace == InitRace /\ [][NextRace]_vars

\* C20: when the calls of two threads with the same arguments have both
\* returned, and the whole run lies within the time to live of whatever was
\* stored (timedelta > now), the handler was invoked once in all and both
\* calls returned the same value.
C20_CacheSerialized ==
    (/\ \A t \in Threads : threads[t].pc = "done" /\ threads[t].out.st = "return"
     /\ timedelta > now) =>
        /\ threads[1].invoked + threads[2].invoked = 1
        /\ threads[1].out = threads[2].out

(***************************************************************************)
(* Handlers that fail.  The client registers handlers, some of which raise *)
(* (the data provider is unreachable), on the tables of the methods that   *)
(* catch _UnableToRouteException, and the driver calls those methods.      *)
(***************************************************************************)
\* @mixed(operations, paths) def fn
FailInputs ==
    {<<<<"readdir">>, <<T_a>>, "broken">>,
     <<<<"readlink">>, <<T_a>>, "read_file">>,
     <<<<"readlink">>, <<T_x>>, "broken">>,
     <<<<"read">>, <<T_a>>, "broken">>,
     <<<<"open">>, <<T_x>>, "broken">>,
     <<<<"getxattr", "listxattr">>, <<T_x>>, "broken">>}

NextFailures ==
    \/ Return
    \/ \E i \in FailInputs : mixed(i[1], i[2], i[3])
    \/ \E path \in Paths :
        \/ Getattr(path)
        \/ Readdir(path)
        \/ Readlink(path)
        \/ Getxattr(path)
        \/ Listxattr(path)
        \/ Open(path)
        \/ \E size \in 0..MaxSize : Read(path, size, 0)

SpecFailures == Init /\ [][NextFailures]_vars

(***************************************************************************)
(* Properties of the extended attribute methods and of failures (Spec).    *)
(***************************************************************************)
\* C21: getxattr on a path that no getxattr route matches returns the empty
\* string, and listxattr on a path that no listxattr route matches returns
\* the empty list; neither raises, and neither calls a handler.
C21_XattrEmpty ==
    (/\ last.op \in {"getxattr", "listxattr"}
     /\ MatchSet(routes[last.op], last.path) = {}) =>
        /\ last.res.st = "return"
        /\ last.res.v.t = (IF last.op = "getxattr" THEN "str" ELSE "list")
        /\ last.res.v.v = <<>>
        /\ last.calls = <<>>

\* getxattr on a path that none of the routes of the getxattr table matches
C21_Witness ==
    /\ last.op = "getxattr"
    /\ MatchSet(routes["getxattr"], last.path) = {}
    /\ Len(routes["getxattr"]) > 0
    /\ last.res.st = "return"
    /\ last.res.v = Str(<<>>)

\* the route a method asks first: getattr asks the readdir table, and the
\* readlink table when no readdir route matches; read asks the read table,
\* and the readlink table when no read route matches
FirstTable(op, path) ==
    CASE op = "getattr" ->
             IF MatchSet(routes["readdir"], path) # {} THEN "readdir"
             ELSE "readlink"
      [] op = "read" ->
             IF MatchSet(routes["read"], path) # {} THEN "read" ELSE "readlink"
      [] OTHER -> op

\* C22: when the handler of the route a method dispatches to fails, the
\* method raises that failure: it calls no other handler, reports no missing
\* entry and returns nothing (open hands out no handle).
C22_FailurePropagates ==
    (/\ last.op \in DispatchOps \cup {"getattr", "read"}
     /\ MatchSet(routes[FirstTable(last.op, last.path)], last.path) # {}
     /\ Produced(Earliest(routes[FirstTable(last.op, last.path)], last.path),
                 last.path).st = "raise") =>
        LET r == Earliest(routes[FirstTable(last.op, last.path)], last.path) IN
        /\ last.res.st = "raise"
        /\ last.res.v = Produced(r, last.path).v
        /\ last.calls = <<[fn |-> r.callback.fn,
                           args |-> re_match(r.re, last.path).groups]>>

\* getattr on a path whose readdir handler raised IOError, while a readlink
\* route with a working handler matches the path too
C22_Witness ==
    /\ last.op = "getattr"
    /\ MatchSet(routes["readdir"], last.path) # {}
    /\ Resolved("readlink", last.path)
    /\ last.res.st = "raise"
    /\ last.res.v = "IOError"

(***************************************************************************)
(* mondofs: _get_transaction and transactions_in_year_month, each wrapped  *)
(* by a decorator object of its own, and the list cache that the listing   *)
(* seeds.  The variables cache and cache_expiry are the dicts of the       *)
(* decorator object of _get_transaction, timedelta its lifetime; time is   *)
(* counted in minutes.  A transaction is a record of the fields the        *)
(* lookups differ in: its id, its merchant field, the API call it came     *)
(* from and when.                                                          *)
(***************************************************************************)
MaxMinutes == 6    \* the clock of the lookups runs from 0 to MaxMinutes
TxnTtl == 5        \* @cache(datetime.timedelta(minutes=5))
ListTtl == 1       \* @cache(datetime.timedelta(minutes=1))

Bool(b) == [t |-> "bool", v |-> b]

\* the transactions of the month that is listed; before the month is listed
\* for the first time they are the ids the list cache does not hold
ListedIds == {<<"1">>}
TxnIds == ListedIds

\* MondoAPI.get_transaction(transaction_id, merchant) answered at time t: the
\* merchant field is the merchant's details with expand[]=merchant, its id
\* without
MondoAPI_get_transaction(transaction_id, merchant, t) ==
    [t |-> "dict", id |-> transaction_id,
     merchant |-> IF merchant THEN "details" ELSE "id",
     from |-> "get_transaction", at |-> t]

\* a transaction of MondoAPI.list_transactions answered at time t
MondoAPI_list_transaction(transaction_id, t) ==
    [t |-> "dict", id |-> transaction_id, merchant |-> "id",
     from |-> "list_transactions", at |-> t]

\* the lookup of _cache: whether the entry of key is served, and the dicts
\* after an expired entry has been cleared
cache_lookup(c, x, key, t) ==
    LET expires == dict_get(x, key) IN
    IF expires.t = "None" THEN [hit |-> FALSE, cache |-> c, cache_expiry |-> x]
    ELSE IF not_expired(t, expires)
    THEN [hit |-> TRUE, cache |-> c, cache_expiry |-> x]
    ELSE [hit |-> FALSE, cache |-> dict_set(c, key, None),
          cache_expiry |-> dict_set(x, key, None)]

\* the store of _cache
cache_store(c, x, ttl, key, value, t) ==
    [cache |-> dict_set(c, key, value),
     cache_expiry |-> dict_set(x, key, Datetime(t + ttl))]

\* a lookup that asks the API whatever the list cache holds
get_transaction_upstream(lc, transaction_id, merchant, t, raises) ==
    [ret |-> IF raises THEN Raised("IOError")
             ELSE Returned(MondoAPI_get_transaction(transaction_id, merchant, t)),
     upstream |-> 1]

\* a lookup that takes a seeded record for a merchant request as well
get_transaction_seed_first(lc, transaction_id, merchant, t, raises) ==
    IF transaction_id \in DOMAIN lc
    THEN [ret |-> Returned(lc[transaction_id]), upstream |-> 0]
    ELSE get_transaction_upstream(lc, transaction_id, merchant, t, raises)

\* the body of _get_transaction on the list cache lc: what it returns or
\* raises, and how many API calls it makes
get_transaction_body(lc, transaction_id, merchant, t, raises) ==
    IF ~merchant /\ transaction_id \in DOMAIN lc
    THEN [ret |-> Returned(lc[transaction_id]), upstream |-> 0]
    ELSE [ret |-> IF raises THEN Raised("IOError")
                  ELSE Returned(MondoAPI_get_transaction(transaction_id,
                                                         merchant, t)),
          upstream |-> 1]

\* the key of _get_transaction(transaction_id, merchant)
txn_key(transaction_id, merchant) ==
    cache_key(<<Str(transaction_id), Bool(merchant)>>, <<>>)

\* the key of transactions_in_year_month(account_id, year, month) for the
\* month that is listed
month_key ==
    cache_key(<<Str(<<"a">>), Str(<<"2", "0", "1", "6">>), Str(<<"0", "1">>)>>,
              <<>>)

\* transaction['merchant'] = {} and what cache[transaction['id']] is set to
seeded(transaction_id, t) ==
    [MondoAPI_list_transaction(transaction_id, t) EXCEPT !.merchant = "{}"]

\* the list cache after the loop of transactions_in_year_month at time t
seed(lc, t) ==
    [id \in DOMAIN lc \cup ListedIds |->
        IF id \in ListedIds THEN seeded(id, t) ELSE lc[id]]

\* the module is imported: both decorator objects and the list cache are empty
InitMondo ==
    /\ routes = [op \in Operations |-> <<>>]
    /\ fd = 0
    /\ handles = <<>>
    /\ timedelta = TxnTtl
    /\ cache = <<>>
    /\ cache_expiry = <<>>
    /\ now = 0
    /\ last = Idle
    /\ threads = <<>>
    /\ transaction_list_cache = <<>>
    /\ listing = [cache |-> <<>>, cache_expiry |-> <<>>]

\* _get_transaction(transaction_id, merchant) called at time t under its
\* cache decorator, on the dicts c and x of its store and the list cache lc
get_transaction(c, x, lc, transaction_id, merchant, t, raises) ==
    LET key == txn_key(transaction_id, merchant)
        l == cache_lookup(c, x, key, t)
        b == get_transaction_body(lc, transaction_id, merchant, t, raises)
        stored == cache_store(l.cache, l.cache_expiry, TxnTtl, key, b.ret.v, t)
    IN  IF l.hit
        THEN [cache |-> c, cache_expiry |-> x, ret |-> Returned(c[key]),
              invoked |-> 0, upstream |-> 0]
        ELSE IF b.ret.st = "raise"
        THEN [cache |-> l.cache, cache_expiry |-> l.cache_expiry,
              ret |-> b.ret, invoked |-> 1, upstream |-> b.upstream]
        ELSE [cache |-> stored.cache, cache_expiry |-> stored.cache_expiry,
              ret |-> b.ret, invoked |-> 1, upstream |-> b.upstream]

\* what a handler's call of _get_transaction is observed to do
Lookup(caller, transaction_id, merchant, r) ==
    [op |-> "_get_transaction", caller |-> caller, id |-> transaction_id,
     merchant |-> merchant, at |-> now,
     had |-> dict_get(cache_expiry, txn_key(transaction_id, merchant)),
     held |-> dict_get(cache, txn_key(transaction_id, merchant)),
     seed |-> dict_get(transaction_list_cache, transaction_id),
     res |-> r.ret, invoked |-> r.invoked, upstream |-> r.upstream]

\* transaction_fields: _get_transaction(transaction_id, False)
TransactionFields(transaction_id, raises) ==
    LET r == get_transaction(cache, cache_expiry, transaction_list_cache,
                             transaction_id, FALSE, now, raises)
    IN  /\ last = Idle
        /\ cache' = r.cache
        /\ cache_expiry' = r.cache_expiry
        /\ last' = Lookup("transaction_fields", transaction_id, FALSE, r)
        /\ UNCHANGED <<fsvars, timedelta, now, threads, mondovars>>

\* transaction_as_json: _get_transaction(transaction_id, True)
TransactionAsJson(transaction_id, raises) ==
    LET r == get_transaction(cache, cache_expiry, transaction_list_cache,
                             transaction_id, TRUE, now, raises)
    IN  /\ last = Idle
        /\ cache' = r.cache
        /\ cache_expiry' = r.cache_expiry
        /\ last' = Lookup("transaction_as_json", transaction_id, TRUE, r)
        /\ UNCHANGED <<fsvars, timedelta, now, threads, mondovars>>

\* the fields field_from_transaction is asked for
Fields == {"merchant", "id"}

\* field_from_transaction: _get_transaction(transaction_id, merchant) with
\* merchant = (field == 'merchant'), then txn['merchant'] = {} on the dict it
\* was handed when not merchant; that dict is the one the store of
\* _get_transaction holds under the key of the call (a seeded record has the
\* empty merchant already)
FieldFromTransaction(transaction_id, field, raises) ==
    LET merchant == (field = "merchant")
        key == txn_key(transaction_id, merchant)
        r == get_transaction(cache, cache_expiry, transaction_list_cache,
                             transaction_id, merchant, now, raises)
    IN  /\ last = Idle
        /\ cache' = IF ~merchant /\ r.ret.st = "return"
                    THEN dict_set(r.cache, key,
                                  [r.ret.v EXCEPT !.merchant = "{}"])
                    ELSE r.cache
        /\ cache_expiry' = r.cache_expiry
        /\ last' = Lookup("field_from_transaction", transaction_id, merchant, r)
        /\ UNCHANGED <<fsvars, timedelta, now, threads, mondovars>>

\* a call of transactions_in_year_month for the month that is listed
ListMonth(raises) ==
    LET l == cache_lookup(listing.cache, listing.cache_expiry, month_key, now)
        ids == List(<<<<"1">>>>)
        stored == cache_store(l.cache, l.cache_expiry, ListTtl, month_key,
                              ids, now)
    IN  /\ last = Idle
        /\ listing' = IF l.hit THEN listing
                      ELSE IF raises
                      THEN [cache |-> l.cache, cache_expiry |-> l.cache_expiry]
                      ELSE stored
        /\ transaction_list_cache' =
               IF l.hit \/ raises THEN transaction_list_cache
               ELSE seed(transaction_list_cache, now)
        /\ last' = [op |-> "transactions_in_year_month", at |-> now,
                    res |-> IF l.hit THEN Returned(listing.cache[month_key])
                            ELSE IF raises THEN Raised("IOError")
                            ELSE Returned(ids),
                    invoked |-> IF l.hit THEN 0 ELSE 1]
        /\ UNCHANGED <<fsvars, cachevars, threads>>

\* a minute passes between calls
Minute ==
    /\ last = Idle
    /\ now < MaxMinutes
    /\ now' = now + 1
    /\ UNCHANGED <<fsvars, timedelta, cache, cache_expiry, last, threads,
                   mondovars>>

NextMondo ==
    \/ Return
    \/ Minute
    \/ \E raises \in BOOLEAN :
        \/ ListMonth(raises)
        \/ \E id \in TxnIds :
            \/ TransactionFields(id, raises)
            \/ TransactionAsJson(id, raises)
            \/ \E field \in Fields : FieldFromTransaction(id, field, raises)

SpecMondo == InitMondo /\ [][NextMondo]_vars

\* a lookup without merchant expansion for an id a listing has seeded
SeededLookup ==
    /\ last.op = "_get_transaction"
    /\ ~last.merchant
    /\ last.seed.t # "None"

\* the lookup found an entry of its own that has not expired
Memoized == last.had.t = "datetime" /\ last.at < last.had.v

\* C23 as stated: once a listing has seeded an id, every lookup of it without
\* merchant expansion returns the seeded record and makes no upstream call.
C23_SeededRecord ==
    SeededLookup => (last.res = Returned(last.seed) /\ last.upstream = 0)

\* C23: once a listing has seeded an id, a lookup of it without merchant
\* expansion makes no upstream call; it returns the entry memoized for the
\* lookup while that entry has not expired, and the seeded record when the
\* entry is absent or expired.
C23_SeedServed ==
    SeededLookup =>
        /\ last.upstream = 0
        /\ last.res = IF Memoized THEN Returned(last.held)
                      ELSE Returned(last.seed)

\* a seeded id is looked up after the entry memoized for it has expired
C23_Witness ==
    /\ SeededLookup
    /\ last.had.t = "datetime"
    /\ last.at >= last.had.v
    /\ last.res = Returned(last.seed)
    /\ last.upstream = 0

\* a lookup with merchant expansion
MerchantLookup == last.op = "_get_transaction" /\ last.merchant

\* C27: a lookup with merchant expansion is never answered from the list
\* cache: when its own memoized entry is absent or expired it calls the
\* upstream get_transaction with merchant expansion, seeded id or not, and what
\* it returns is an upstream record with the merchant's details, never a
\* seeded record with the empty merchant.
C27_MerchantUpstream ==
    MerchantLookup =>
        /\ IF Memoized
           THEN last.upstream = 0 /\ last.res = Returned(last.held)
           ELSE /\ last.upstream = 1
                /\ last.res.st = "return" =>
                       last.res.v = MondoAPI_get_transaction(last.id, TRUE,
                                                             last.at)
        /\ last.res.st = "return" =>
               /\ last.res.v.from = "get_transaction"
               /\ last.res.v.merchant = "details"

\* a merchant lookup of a seeded id whose own entry has expired
C27_Witness ==
    /\ MerchantLookup
    /\ last.seed.t # "None"
    /\ last.had.t = "datetime"
    /\ last.at >= last.had.v
    /\ last.upstream = 1
    /\ last.res.st = "return"

\* the handler raised during the last cached call
FailedCall == last.op = "cached_call" /\ last.res.st = "raise"

\* C26: when the wrapped handler raises during a cached call, the cache holds
\* no usable entry for the key afterwards: neither dict holds anything but None
\* for it, and a call with the same arguments made at any later time invokes
\* the handler again and returns what the handler returns then (or raises),
\* never a value held before.
C26_FailureNotCached ==
    FailedCall =>
        /\ last.invoked = 1
        /\ dict_get(cache_expiry, last.key) = None
        /\ dict_get(cache, last.key) = None
        /\ \A fn \in Fns, t \in now..MaxTime, raises \in BOOLEAN :
               LET r == cached_call(cache, cache_expiry, timedelta, fn,
                                    last.args, last.kwargs, t, 0, raises)
               IN  /\ r.invoked = 1
                   /\ r.ret = fn_call(fn, last.args, last.kwargs, t, raises)

\* the handler raised in a call that found an expired value for its key
C26_Witness ==
    /\ FailedCall
    /\ timedelta > 0
    /\ last.had.t = "datetime"
    /\ last.held.t = "result"
    /\ now < MaxTime

\* C25: on every path for which getattr reports a regular file and readlink
\* succeeds with a payload of bytes, the st_size of getattr is the length of
\* the payload readlink returns, whatever the route tables.
C25_SizeAgrees ==
    \A path \in Paths :
        LET g == fs_getattr(routes, path)
            r == fs_readlink(routes, path)
        IN  (/\ g.st = "return"
             /\ g.v.v.st_mode = S_IFREG_0444
             /\ r.st = "return"
             /\ r.v.t = "str")
            => g.v.v.st_size = Len(r.v.v)

(***************************************************************************)
(* appendnewline (SpecAppend): the decorator applied to what a handler     *)
(* returns, and the coercion of what it returns by the route decorators.   *)
(***************************************************************************)
\* the decorated function of appendnewline on the result r of fn: the value it
\* returns, or the exception bytes() raised
appendnewline(r) ==
    IF r.t \in {"list", "dict"} THEN r
    ELSE IF ~encodable(r) THEN UnicodeEncodeError
    ELSE Str(bytes(r) \o <<"\n">>)

\* what the handlers under appendnewline return: primitive values and
\* collections of strs
Returns ==
    {v \in Values : ~IsNode(v)}
    \cup {Dict(s) : s \in SeqsUpTo(Strings \X Strings, 1)}

InitAppend ==
    /\ routes = [op \in Operations |-> <<>>]
    /\ fd = 0
    /\ handles = <<>>
    /\ timedelta = 0
    /\ cache = <<>>
    /\ cache_expiry = <<>>
    /\ threads = <<>>
    /\ transaction_list_cache = <<>>
    /\ listing = [cache |-> <<>>, cache_expiry |-> <<>>]
    /\ now = 0
    /\ last \in {[op |-> "value", x |-> v] : v \in Returns}

\* appendnewline(fn)(...) where fn returns last.x
AppendNewline ==
    /\ last.op = "value"
    /\ last' = [op |-> "appendnewline", x |-> last.x,
                res |-> appendnewline(last.x)]
    /\ UNCHANGED <<fsvars, cachevars, threads, mondovars>>

\* the route decorator on top: _ensure_obj of what the decorated handler
\* returned, next to _ensure_obj of what the handler itself returned
EnsureAppended ==
    /\ last.op = "appendnewline"
    /\ last.res # UnicodeEncodeError
    /\ last' = [op |-> "ensure_appended", x |-> last.x,
                res |-> ensure_obj(last.res), plain |-> ensure_obj(last.x)]
    /\ UNCHANGED <<fsvars, cachevars, threads, mondovars>>

NextAppend == AppendNewline \/ EnsureAppended

SpecAppend == InitAppend /\ [][NextAppend]_vars

\* C24: appendnewline returns a list, tuple or set, the values _ensure_obj
\* makes a Dir of, unchanged, and for any other value returns its bytes
\* followed by one newline; so the node made of the decorated result is a Dir
\* exactly when the node made of the plain result is.
C24_AppendNewline ==
    /\ last.op = "appendnewline" =>
           IF last.x.t \in {"list", "tuple", "set"}
           THEN last.res = last.x
           ELSE /\ last.res.t = "str"
                /\ last.res.v = bytes(last.x) \o <<"\n">>
    /\ last.op = "ensure_appended" =>
           ((last.res.t = "Dir") <=> (last.plain.t = "Dir"))

====
